---- MODULE Spec2Model ----
(***************************************************************************)
(* A model of sudoku.py: the Sudoku class (parsing, serialisation, the     *)
(* validity check, the candidate map) and the backtracking solve_puzzle.   *)
(* Python's None is modelled by the number 0, a one-character string by a  *)
(* TLA+ string, a str by a sequence of such characters (position p of the  *)
(* Python string is element p + 1 of the sequence).                        *)
(***************************************************************************)
EXTENDS Integers, Sequences, FiniteSets, TLC

None == 0

\* range(9) and range(1, 10)
range9 == 0 .. 8
range1_10 == 1 .. 9

\* A list of nine lists of nine values, indexed [line][row] from 0, whose
\* entry at (line, row) is F(line, row).
MakeList(F(_, _), ln) ==
    (0 :> F(ln, 0)) @@ (1 :> F(ln, 1)) @@ (2 :> F(ln, 2)) @@ (3 :> F(ln, 3))
        @@ (4 :> F(ln, 4)) @@ (5 :> F(ln, 5)) @@ (6 :> F(ln, 6))
        @@ (7 :> F(ln, 7)) @@ (8 :> F(ln, 8))

MakeMatrix(F(_, _)) ==
    (0 :> MakeList(F, 0)) @@ (1 :> MakeList(F, 1)) @@ (2 :> MakeList(F, 2))
        @@ (3 :> MakeList(F, 3)) @@ (4 :> MakeList(F, 4)) @@ (5 :> MakeList(F, 5))
        @@ (6 :> MakeList(F, 6)) @@ (7 :> MakeList(F, 7)) @@ (8 :> MakeList(F, 8))

\* [[x for _dummy in range(9)] for _dummy in range(9)]
Matrix(x) == MakeMatrix(LAMBDA ln, rw : x)

(***************************************************************************)
(* Characters.  int(ch) of a one-character string: defined for every       *)
(* Unicode decimal digit (here the ASCII digits and ARABIC-INDIC DIGIT     *)
(* ONE, written "U+0661"), a ValueError for every other character.         *)
(***************************************************************************)
IntDomain == {"0", "1", "2", "3", "4", "5", "6", "7", "8", "9", "U+0661"}

int(ch) ==
    CASE ch = "0" -> 0
      [] ch = "1" -> 1
      [] ch = "2" -> 2
      [] ch = "3" -> 3
      [] ch = "4" -> 4
      [] ch = "5" -> 5
      [] ch = "6" -> 6
      [] ch = "7" -> 7
      [] ch = "8" -> 8
      [] ch = "9" -> 9
      [] ch = "U+0661" -> 1

\* str(n) of a digit 1..9
str(n) == <<"1", "2", "3", "4", "5", "6", "7", "8", "9">>[n]

(***************************************************************************)
(* Sudoku.__init__(grid_string): the outcome is the constructed grid or    *)
(* the exception that leaves the constructor.                              *)
(***************************************************************************)
NoGrid == <<>>

Raise(e) == [err |-> e, grid |-> NoGrid]

\* The for loop of __init__ stops at the first position whose character is
\* neither "." nor a digit 1..9: int() raises ValueError there, or the else
\* branch raises GridStringError.
Rejected(ch) == ch # "." /\ (ch \notin IntDomain \/ int(ch) \notin range1_10)

InitLoop(grid_string) ==
    LET bad == {position \in 0 .. 80 : Rejected(grid_string[position + 1])}
        Cell(line, row) ==
            IF grid_string[9 * line + row + 1] = "." THEN None
            ELSE int(grid_string[9 * line + row + 1])
    IN IF bad = {}
       THEN [err |-> "none", grid |-> MakeMatrix(Cell)]
       ELSE LET position == CHOOSE p \in bad : \A q \in bad : p <= q
            IN IF grid_string[position + 1] \notin IntDomain
               THEN Raise("ValueError")
               ELSE Raise("GridStringError")

Sudoku_init(grid_string) ==
    IF grid_string = <<>> THEN [err |-> "none", grid |-> Matrix(None)]
    ELSE IF Len(grid_string) # 81 THEN Raise("GridStringError")
    ELSE InitLoop(grid_string)

\* verify_vertex_values: TRUE when no VertexValueError is raised
verify_vertex_values(g) ==
    \A ln \in range9, rw \in range9 : g[ln][rw] \in range1_10 \/ g[ln][rw] = None

\* output_string after the loop: one character per (line, row), line-major
StrLoop(g) ==
    [k \in 1 .. 81 |->
        LET v == g[(k - 1) \div 9][((k - 1) % 9)]
        IN IF v = None THEN "." ELSE str(v)]

Sudoku_str(g) ==
    IF verify_vertex_values(g) THEN StrLoop(g) ELSE <<"VertexValueError">>

(***************************************************************************)
(* Sudoku.valid                                                            *)
(***************************************************************************)
\* one "seen" scan over the values of a unit, in order: TRUE when a value
\* is met that is already in seen
RECURSIVE Repeats(_, _, _)
Repeats(vals, k, seen) ==
    IF k > Len(vals) THEN FALSE
    ELSE IF vals[k] = None THEN Repeats(vals, k + 1, seen)
    ELSE IF vals[k] \in seen THEN TRUE
    ELSE Repeats(vals, k + 1, seen \cup {vals[k]})

LineValues(g, line) == [k \in 1 .. 9 |-> g[line][k - 1]]
RowValues(g, row) == [k \in 1 .. 9 |-> g[k - 1][row]]
\* a variant that reads the subgrid's rows at the offset of its lines
SubgridValues_LineOffset(g, subgrid_line, subgrid_row) ==
    [k \in 1 .. 9 |-> g[3 * subgrid_line + (k - 1) \div 3][3 * subgrid_line + ((k - 1) % 3)]]

SubgridValues(g, subgrid_line, subgrid_row) ==
    [k \in 1 .. 9 |-> g[3 * subgrid_line + (k - 1) \div 3][3 * subgrid_row + ((k - 1) % 3)]]

valid(g) ==
    /\ \A line \in range9 : ~Repeats(LineValues(g, line), 1, {})
    /\ \A row \in range9 : ~Repeats(RowValues(g, row), 1, {})
    /\ \A subgrid_line \in 0 .. 2, subgrid_row \in 0 .. 2 :
           ~Repeats(SubgridValues(g, subgrid_line, subgrid_row), 1, {})

(***************************************************************************)
(* Sudoku.candidate_map.  st = [c |-> candidates, u |-> vertex_value_unknown] *)
(***************************************************************************)
\* candidates[l][r].discard(number) for every (l, r) in T
\* (when no cell of T holds number, the discards change nothing)
DiscardFrom(c, T, number) ==
    IF \A t \in T : number \notin c[t[1]][t[2]] THEN c
    ELSE MakeMatrix(LAMBDA l, r : IF <<l, r>> \in T THEN c[l][r] \ {number} ELSE c[l][r])

\* candidates[l][r] = set([number])
SetTo(c, l, r, number) ==
    MakeMatrix(LAMBDA ln, rw : IF ln = l /\ rw = r THEN {number} ELSE c[ln][rw])

\* vertex_value_unknown[l][r] = False
Known(u, l, r) ==
    MakeMatrix(LAMBDA ln, rw : IF ln = l /\ rw = r THEN FALSE ELSE u[ln][rw])

\* the body of the first loop for one (line, row)
\* a variant without the "!= row" and "!= line" tests: the given digit is
\* discarded from its own cell too
PhaseACell_DiscardSelf(st, g, line, row) ==
    IF g[line][row] \in range1_10
    THEN LET v == g[line][row]
             T == {<<line, i>> : i \in range9} \cup {<<i, row>> : i \in range9}
         IN [c |-> DiscardFrom(SetTo(st.c, line, row, v), T, v),
             u |-> Known(st.u, line, row)]
    ELSE st

\* a variant without the discards in the given cell's subgrid
PhaseACell_NoSubgrid(st, g, line, row) ==
    IF g[line][row] \in range1_10
    THEN LET v == g[line][row]
             T == {<<line, i>> : i \in {i \in range9 : i # row}}
                  \cup {<<i, row>> : i \in {i \in range9 : i # line}}
         IN [c |-> DiscardFrom(SetTo(st.c, line, row, v), T, v),
             u |-> Known(st.u, line, row)]
    ELSE st

PhaseACell(st, g, line, row) ==
    IF g[line][row] \in range1_10
    THEN LET v == g[line][row]
             T == {<<line, i>> : i \in {i \in range9 : i # row}}
                  \cup {<<i, row>> : i \in {i \in range9 : i # line}}
                  \cup {<<line - (line % 3) + i \div 3, row - (row % 3) + (i % 3)>> :
                          i \in {i \in range9 : line - (line % 3) + i \div 3 # line
                                                \/ row - (row % 3) + (i % 3) # row}}
         IN [c |-> DiscardFrom(SetTo(st.c, line, row, v), T, v),
             u |-> Known(st.u, line, row)]
    ELSE st

\* (next = st is tested only so that next is evaluated before the recursive
\* call: both branches continue from next)
RECURSIVE PhaseARows(_, _, _, _)
PhaseARows(st, g, line, row) ==
    IF row = 9 THEN st
    ELSE LET next == PhaseACell(st, g, line, row)
         IN IF next = st THEN PhaseARows(st, g, line, row + 1)
                         ELSE PhaseARows(next, g, line, row + 1)

RECURSIVE PhaseALoop(_, _, _)
PhaseALoop(st, g, line) ==
    IF line = 9 THEN st
    ELSE LET next == PhaseARows(st, g, line, 0)
         IN IF next = st THEN PhaseALoop(st, g, line + 1)
                         ELSE PhaseALoop(next, g, line + 1)

PhaseA(g) == PhaseALoop([c |-> Matrix(range1_10), u |-> Matrix(TRUE)], g, 0)

\* seen_in_j[0] of a one-element list
First(seen_in_j) == CHOOSE j \in seen_in_j : TRUE

\* "Check for single possible vertex for number in candidate map line i"
LineBlock(st, number, i) ==
    LET seen_in_j == {j \in range9 : number \in st.c[i][j]}
    IN IF Cardinality(seen_in_j) = 1 /\ st.u[i][First(seen_in_j)]
       THEN LET s == First(seen_in_j)
                T == {<<j, s>> : j \in {j \in range9 : j # i}}
                     \cup {<<i - (i % 3) + j \div 3, s - (s % 3) + (j % 3)>> :
                             j \in {j \in range9 : i - (i % 3) + j \div 3 # i}}
            IN [c |-> DiscardFrom(SetTo(st.c, i, s, number), T, number),
                u |-> Known(st.u, i, s)]
       ELSE IF 1 < Cardinality(seen_in_j) /\ Cardinality(seen_in_j) < 4
       THEN LET subsquares == {3 * (i \div 3) + j \div 3 : j \in seen_in_j}
            IN IF Cardinality(subsquares) = 1
               THEN LET subsquare == CHOOSE x \in subsquares : TRUE
                        T == {<<3 * (subsquare \div 3) + j \div 3, 3 * (subsquare % 3) + (j % 3)>> :
                                j \in {j \in range9 : 3 * (subsquare \div 3) + j \div 3 # i}}
                    IN [st EXCEPT !.c = DiscardFrom(st.c, T, number)]
               ELSE st
       ELSE st

\* "Check for single possible vertex for number in candidate map row i"
RowBlock(st, number, i) ==
    LET seen_in_j == {j \in range9 : number \in st.c[j][i]}
    IN IF Cardinality(seen_in_j) = 1 /\ st.u[First(seen_in_j)][i]
       THEN LET s == First(seen_in_j)
                T == {<<s, j>> : j \in {j \in range9 : j # i}}
                     \cup {<<s - (s % 3) + j \div 3, i - (i % 3) + (j % 3)>> :
                             j \in {j \in range9 : i - (i % 3) + (j % 3) # i}}
            IN [c |-> DiscardFrom(SetTo(st.c, s, i, number), T, number),
                u |-> Known(st.u, s, i)]
       ELSE IF 1 < Cardinality(seen_in_j) /\ Cardinality(seen_in_j) < 4
       THEN LET subsquares == {3 * (j \div 3) + i \div 3 : j \in seen_in_j}
            IN IF Cardinality(subsquares) = 1
               THEN LET subsquare == CHOOSE x \in subsquares : TRUE
                        T == {<<3 * (subsquare \div 3) + j \div 3, 3 * (subsquare % 3) + (j % 3)>> :
                                j \in {j \in range9 : 3 * (subsquare % 3) + (j % 3) # i}}
                    IN [st EXCEPT !.c = DiscardFrom(st.c, T, number)]
               ELSE st
       ELSE st

\* "Check for single possible vertex for number in candidate map subsquare i"
SubsquareBlock(st, number, i) ==
    LET seen_in_j == {j \in range9 : number \in st.c[3 * (i \div 3) + j \div 3][3 * (i % 3) + (j % 3)]}
        inLines == {3 * (i \div 3), 3 * (i \div 3) + 1, 3 * (i \div 3) + 2}
        inRows == {3 * (i % 3), 3 * (i % 3) + 1, 3 * (i % 3) + 2}
    IN IF Cardinality(seen_in_j) = 1
          /\ st.u[3 * (i \div 3) + First(seen_in_j) \div 3][3 * (i % 3) + (First(seen_in_j) % 3)]
       THEN LET ln == 3 * (i \div 3) + First(seen_in_j) \div 3
                rw == 3 * (i % 3) + (First(seen_in_j) % 3)
                T == {<<ln, j>> : j \in {j \in range9 : j \notin inRows}}
                     \cup {<<j, rw>> : j \in {j \in range9 : j \notin inLines}}
            IN [c |-> DiscardFrom(SetTo(st.c, ln, rw, number), T, number),
                u |-> Known(st.u, ln, rw)]
       ELSE IF 1 < Cardinality(seen_in_j) /\ Cardinality(seen_in_j) < 4
       THEN LET lines == {3 * (i \div 3) + j \div 3 : j \in seen_in_j}
                rows == {3 * (i % 3) + (j % 3) : j \in seen_in_j}
            IN IF Cardinality(lines) = 1
               THEN LET line == CHOOSE x \in lines : TRUE
                    IN [st EXCEPT !.c = DiscardFrom(st.c,
                            {<<line, row>> : row \in {rw \in range9 : rw \notin inRows}}, number)]
               ELSE IF Cardinality(rows) = 1
               THEN LET row == CHOOSE x \in rows : TRUE
                    IN [st EXCEPT !.c = DiscardFrom(st.c,
                            {<<line, row>> : line \in {ln \in range9 : ln \notin inLines}}, number)]
               ELSE st
       ELSE st

\* One pass of the while loop is 243 blocks, k = 0 .. 242, in the order
\* "for number in range(1, 10): for i in range(9): line, row, subsquare".
StepsPerPass == 9 * 9 * 3
NumberOf(k) == 1 + k \div 27
IndexOf(k) == ((k \div 3) % 9)

Block(st, k) ==
    CASE (k % 3) = 0 -> LineBlock(st, NumberOf(k), IndexOf(k))
      [] (k % 3) = 1 -> RowBlock(st, NumberOf(k), IndexOf(k))
      [] (k % 3) = 2 -> SubsquareBlock(st, NumberOf(k), IndexOf(k))

\* the body of "for i in range(9)" for one i
Iteration(st, number, i) ==
    SubsquareBlock(RowBlock(LineBlock(st, number, i), number, i), number, i)

RECURSIVE IndexLoop(_, _, _)
IndexLoop(st, number, i) ==
    IF i = 9 THEN st
    ELSE LET next == Iteration(st, number, i)
         IN IF next = st THEN IndexLoop(st, number, i + 1)
                         ELSE IndexLoop(next, number, i + 1)

RECURSIVE NumberLoop(_, _)
NumberLoop(st, number) ==
    IF number = 10 THEN st
    ELSE LET next == IndexLoop(st, number, 0)
         IN IF next = st THEN NumberLoop(st, number + 1)
                         ELSE NumberLoop(next, number + 1)

PassLoop(st) == NumberLoop(st, 1)

\* sum([len(candidates[ln][rw]) for ln in range(9) for rw in range(9)])
RECURSIVE SumLen(_, _, _)
SumLen(c, ln, rw) ==
    IF rw = 9 THEN 0 ELSE Cardinality(c[ln][rw]) + SumLen(c, ln, rw + 1)

RECURSIVE SumLines(_, _)
SumLines(c, ln) ==
    IF ln = 9 THEN 0 ELSE SumLen(c, ln, 0) + SumLines(c, ln + 1)

total_number(c) == SumLines(c, 0)

\* the test that sets reduce_cadidate_map_further at the end of a pass
\* a variant that loops again when the total is unchanged
ReduceFurther_OrEqual(c, total) == total_number(c) <= total

ReduceFurther(c, total) == total_number(c) < total

RECURSIVE WhileLoop(_)
WhileLoop(st) ==
    LET after == PassLoop(st)
    IN IF ReduceFurther(after.c, total_number(st.c)) THEN WhileLoop(after) ELSE after

candidate_map(g) == WhileLoop(PhaseA(g)).c

(***************************************************************************)
(* Inputs.  Grid strings are drawn from a few base puzzles, each with the  *)
(* character at one of the first MaxPerturbed positions of                 *)
(* PerturbPositions replaced.                                              *)
(***************************************************************************)
\* a puzzle with one completion, solved by a chain of forced cells
KnownPuzzle ==
    <<"5", "3", ".", ".", "7", ".", ".", ".", ".",
      "6", ".", ".", "1", "9", "5", ".", ".", ".",
      ".", "9", "8", ".", ".", ".", ".", "6", ".",
      "8", ".", ".", ".", "6", ".", ".", ".", "3",
      "4", ".", ".", "8", ".", "3", ".", ".", "1",
      "7", ".", ".", ".", "2", ".", ".", ".", "6",
      ".", "6", ".", ".", ".", ".", "2", "8", ".",
      ".", ".", ".", "4", "1", "9", ".", ".", "5",
      ".", ".", ".", ".", "8", ".", ".", "7", "9">>

\* 17 unknown cells, one completion; the first branching cell has two
\* candidates, one of which leads to a cell with no candidate
DeadEndPuzzle ==
    <<"5", "3", "4", "6", "7", "8", "9", "1", "2",
      "6", "7", ".", "1", ".", ".", "3", ".", "8",
      "1", ".", "8", "3", ".", ".", ".", "6", "7",
      "8", "5", ".", "7", "6", "1", ".", ".", "3",
      "4", ".", "6", "8", "5", "3", "7", ".", "1",
      "7", "1", "3", "9", "2", "4", ".", ".", "6",
      "9", "6", "1", "5", "3", "7", ".", ".", "4",
      "2", "8", "7", "4", "1", "9", "6", "3", "5",
      "3", "4", "5", "2", "8", "6", "1", "7", "9">>

\* 13 unknown cells, valid, no completion
NoSolutionPuzzle ==
    <<"5", "3", "4", "1", "7", "8", "9", "6", "2",
      "6", "7", "2", ".", "9", "5", ".", "1", "8",
      "1", "9", "8", "6", ".", "2", "5", ".", "7",
      "8", "5", "9", "7", "6", "1", ".", "2", ".",
      "4", "2", "6", "8", "5", "3", "7", "9", "1",
      "7", "1", "3", ".", "2", ".", "8", "5", "6",
      "9", "6", "1", "5", ".", "7", "2", "8", ".",
      "2", "8", "7", ".", "1", ".", "6", ".", "5",
      "3", "4", "5", "2", "8", "6", "1", "7", "9">>

\* 10 unknown cells, four completions; (3, 4) and (5, 8) are left with the
\* single candidate 6 by elimination alone
NakedSinglePuzzle ==
    <<"5", "3", "4", "6", "7", "8", "9", "1", "2",
      "6", "7", "2", "1", "9", "5", "3", "4", "8",
      "1", "9", "8", "3", ".", ".", "5", "6", "7",
      "8", "5", "9", "7", ".", ".", "4", "2", ".",
      "4", "2", "6", "8", "5", ".", "7", "9", ".",
      "7", "1", "3", "9", ".", ".", "8", "5", ".",
      "9", "6", "1", "5", "3", "7", "2", "8", "4",
      "2", "8", "7", "4", "1", "9", "6", "3", "5",
      "3", "4", "5", "2", "8", "6", "1", "7", "9">>

BasePuzzles == {DeadEndPuzzle, NoSolutionPuzzle, NakedSinglePuzzle}

PerturbPositions == <<23, 34, 49, 22, 35, 0>>

MaxPerturbed == 3

GridAlphabet == {".", "1", "2", "3", "4", "5", "6", "7", "8", "9"}

\* characters outside the grid alphabet: a zero, a letter, a space, a
\* non-ASCII decimal digit
OtherCharacters == {"0", "a", " ", "U+0661"}

Perturb(s, position, ch) == [s EXCEPT ![position + 1] = ch]

\* well-formed grid strings
GridStrings ==
    {KnownPuzzle} \cup
    {Perturb(b, PerturbPositions[i], ch) :
        b \in BasePuzzles, i \in 1 .. MaxPerturbed, ch \in GridAlphabet}

\* the known puzzle with one cell changed: digits repeated across its many
\* unresolved cells
SparseStrings ==
    {Perturb(KnownPuzzle, PerturbPositions[i], ch) :
        i \in 1 .. MaxPerturbed, ch \in GridAlphabet}

\* strings handed to the constructor: one or two characters replaced by any
\* character, and strings of other lengths
ParseStrings ==
    {Perturb(Perturb(b, PerturbPositions[i], c1), PerturbPositions[j], c2) :
        b \in BasePuzzles, i \in 1 .. MaxPerturbed, j \in 1 .. MaxPerturbed,
        c1 \in GridAlphabet \cup OtherCharacters,
        c2 \in GridAlphabet \cup OtherCharacters}
    \cup {<<>>, <<".">>, SubSeq(KnownPuzzle, 1, 80), KnownPuzzle \o <<"7">>,
          KnownPuzzle \o KnownPuzzle}

(***************************************************************************)
(* Reference definitions, independent of the code: the peers of a cell,    *)
(* repeated digits, and the set of valid completions of a grid.            *)
(***************************************************************************)
Cells == range9 \X range9

Peers(a, b) ==
    /\ a # b
    /\ \/ a[1] = b[1]
       \/ a[2] = b[2]
       \/ (a[1] \div 3 = b[1] \div 3 /\ a[2] \div 3 = b[2] \div 3)

At(m, a) == m[a[1]][a[2]]

PeersOf == MakeMatrix(LAMBDA ln, rw : {} \cup {b \in Cells : Peers(<<ln, rw>>, b)})

HasRepeat(g) ==
    \E a \in Cells : g[a[1]][a[2]] # None /\
        \E b \in At(PeersOf, a) : g[b[1]][b[2]] = g[a[1]][a[2]]

FullyAssigned(g) == \A a \in Cells : g[a[1]][a[2]] \in range1_10

Agrees(s, g) == \A a \in Cells : g[a[1]][a[2]] # None => s[a[1]][a[2]] = g[a[1]][a[2]]

Unresolved(g) == {a \in Cells : g[a[1]][a[2]] = None}

\* the unknown cells of g as a sequence, line-major
LineMajor == [k \in 1 .. 81 |-> <<(k - 1) \div 9, ((k - 1) % 9)>>]
UnknownCells(g) == SelectSeq(LineMajor, LAMBDA a : g[a[1]][a[2]] = None)

\* all assignments of digits to the first k unknown cells in which no digit
\* equals that of a given peer or of an earlier assigned peer
RECURSIVE Assignments(_, _, _)
Assignments(g, cells, k) ==
    IF k = 0 THEN {<<>>}
    ELSE LET before == Assignments(g, cells, k - 1)
             a == cells[k]
             free == {d \in range1_10 :
                        \A b \in Cells : Peers(a, b) => g[b[1]][b[2]] # d}
             Extensions(p) ==
                 {Append(p, d) : d \in {d \in free :
                     \A i \in 1 .. k - 1 : Peers(a, cells[i]) => p[i] # d}}
         IN UNION {Extensions(p) : p \in before}

Filled(g, cells, p) ==
    MakeMatrix(LAMBDA ln, rw :
        IF g[ln][rw] # None THEN g[ln][rw]
        ELSE p[CHOOSE i \in 1 .. Len(cells) : cells[i] = <<ln, rw>>])

Completions(g) ==
    IF HasRepeat(g) THEN {}
    ELSE LET cells == UnknownCells(g)
         IN {Filled(g, cells, p) : p \in Assignments(g, cells, Len(cells))}

(***************************************************************************)
(* State.                                                                  *)
(***************************************************************************)
VARIABLES
    pc,                           \* where the running program is
    grid_string,                  \* the argument of Sudoku(grid_string)
    instance,                     \* what the constructor produced or raised
    output_string,                \* the value of __str__
    grid,                         \* self.grid of the Sudoku instance in use
    ret,                          \* the value valid() returned
    candidates,                   \* candidate_map: candidates
    vertex_value_unknown,         \* candidate_map: vertex_value_unknown
    total_number_of_candidates,   \* candidate_map: total at the top of a pass
    block,                        \* candidate_map: the next block of the pass
    passes,                       \* candidate_map: passes completed
    stack,                        \* solve_puzzle: the call frames, outermost first
    result,                       \* what the outermost solve_puzzle returned
    input,                        \* the grid the operation was started on
    completions                   \* the valid completions of input

parseVars == <<grid_string, instance, output_string>>
mapVars == <<candidates, vertex_value_unknown, total_number_of_candidates, block, passes>>
solveVars == <<stack, result>>
vars == <<pc, parseVars, grid, ret, mapVars, solveVars, input, completions>>

\* values of the variables an operation does not use
IdleParse ==
    /\ grid_string = <<>>
    /\ instance = Raise("none")
    /\ output_string = <<>>

IdleMap ==
    /\ candidates = Matrix({})
    /\ vertex_value_unknown = Matrix(TRUE)
    /\ total_number_of_candidates = 0
    /\ block = 0
    /\ passes = 0

IdleSolve ==
    /\ stack = <<>>
    /\ result = <<>>

(***************************************************************************)
(* The constructor and __str__: Sudoku(grid_string), then str() of the     *)
(* instance when one was constructed.                                      *)
(***************************************************************************)
InitParse ==
    /\ pc = "start"
    /\ grid_string \in ParseStrings
    /\ instance = Raise("none")
    /\ output_string = <<>>
    /\ grid = Matrix(None)
    /\ ret = FALSE
    /\ IdleMap
    /\ IdleSolve
    /\ input = Matrix(None)
    /\ completions = {}

Construct ==
    /\ pc = "start"
    /\ instance' = Sudoku_init(grid_string)
    /\ pc' = IF instance'.err = "none" THEN "constructed" ELSE "raised"
    /\ grid' = IF instance'.err = "none" THEN instance'.grid ELSE grid
    /\ UNCHANGED <<grid_string, output_string, ret, mapVars, solveVars, input, completions>>

Serialize ==
    /\ pc = "constructed"
    /\ output_string' = Sudoku_str(grid)
    /\ pc' = "serialized"
    /\ UNCHANGED <<grid_string, instance, grid, ret, mapVars, solveVars, input, completions>>

NextParse == Construct \/ Serialize

SpecParse == InitParse /\ [][NextParse]_vars

(***************************************************************************)
(* valid() on a grid.                                                      *)
(***************************************************************************)
InitGridFrom(strings) ==
    /\ IdleParse
    /\ \E s \in strings : grid = Sudoku_init(s).grid
    /\ input = grid
    /\ ret = FALSE

InitGrid == InitGridFrom(GridStrings)

InitValid ==
    /\ pc = "start"
    /\ InitGridFrom(GridStrings \cup SparseStrings)
    /\ IdleMap
    /\ IdleSolve
    /\ completions = {}

CallValid ==
    /\ pc = "start"
    /\ verify_vertex_values(grid)
    /\ ret' = valid(grid)
    /\ pc' = "returned"
    /\ UNCHANGED <<parseVars, grid, mapVars, solveVars, input, completions>>

NextValid == CallValid

SpecValid == InitValid /\ [][NextValid]_vars

(***************************************************************************)
(* candidate_map() on a grid, one block of a pass at a time.               *)
(***************************************************************************)
InitMap ==
    /\ pc = "phaseA"
    /\ InitGrid
    /\ candidates = Matrix(range1_10)
    /\ vertex_value_unknown = Matrix(TRUE)
    /\ total_number_of_candidates = 0
    /\ block = 0
    /\ passes = 0
    /\ IdleSolve
    /\ completions = Completions(grid)

\* the first for loop
DirectElimination ==
    /\ pc = "phaseA"
    /\ LET st == PhaseA(grid)
       IN /\ candidates' = st.c
          /\ vertex_value_unknown' = st.u
    /\ pc' = "while"
    /\ UNCHANGED <<parseVars, grid, ret, total_number_of_candidates, block, passes,
                   solveVars, input, completions>>

\* the top of the while loop body
BeginPass ==
    /\ pc = "while"
    /\ total_number_of_candidates' = total_number(candidates)
    /\ block' = 0
    /\ pc' = "pass"
    /\ UNCHANGED <<parseVars, grid, ret, candidates, vertex_value_unknown, passes,
                   solveVars, input, completions>>

\* one line, row or subsquare block for one (number, i)
ApplyBlock ==
    /\ pc = "pass"
    /\ block < StepsPerPass
    /\ LET st == Block([c |-> candidates, u |-> vertex_value_unknown], block)
       IN /\ candidates' = st.c
          /\ vertex_value_unknown' = st.u
    /\ block' = block + 1
    /\ UNCHANGED <<pc, parseVars, grid, ret, total_number_of_candidates, passes,
                   solveVars, input, completions>>

\* the end of a pass that reduced the total: the loop goes round again
LoopAgain ==
    /\ pc = "pass"
    /\ block = StepsPerPass
    /\ ReduceFurther(candidates, total_number_of_candidates)
    /\ passes' = passes + 1
    /\ pc' = "while"
    /\ UNCHANGED <<parseVars, grid, ret, candidates, vertex_value_unknown,
                   total_number_of_candidates, block, solveVars, input, completions>>

\* the end of a pass that did not: return candidates
ReturnMap ==
    /\ pc = "pass"
    /\ block = StepsPerPass
    /\ ~ReduceFurther(candidates, total_number_of_candidates)
    /\ passes' = passes + 1
    /\ pc' = "returned"
    /\ UNCHANGED <<parseVars, grid, ret, candidates, vertex_value_unknown,
                   total_number_of_candidates, block, solveVars, input, completions>>

NextMap == DirectElimination \/ BeginPass \/ ApplyBlock \/ LoopAgain \/ ReturnMap

\* The loop is sequential code: until it has returned it takes its next step.
\* This is weak fairness of NextMap written out: NextMap is enabled exactly
\* when pc # "returned".
Progress == []<>(pc = "returned") \/ []<><<NextMap>>_vars

SpecMap == InitMap /\ [][NextMap]_vars /\ Progress

(***************************************************************************)
(* solve_puzzle(grid).  A call is a frame: pc is where the call is, entry  *)
(* the grid as the call found it, candidates/line/row/guesses its locals   *)
(* (guesses: the values the for loop has still to yield, tried: those it   *)
(* has yielded), solutions its list.  The grid is shared by all calls.     *)
(***************************************************************************)
NoCell == 81

NewFrame(g) ==
    [pc |-> "enter", entry |-> g, candidates |-> Matrix({}), position |-> NoCell,
     guesses |-> <<>>, tried |-> <<>>, solutions |-> <<>>]

Top == stack[Len(stack)]

SetTop(f) == [stack EXCEPT ![Len(stack)] = f]

\* a variant without "if grid.grid[line][row] is None": the least size over
\* all cells
min_number_of_all_cells(g, c) ==
    LET lens == {9} \cup {Cardinality(c[a[1]][a[2]]) : a \in Cells}
    IN CHOOSE m \in lens : \A n \in lens : m <= n

\* min([9] + [len(candidates[ln][rw]) ... if grid.grid[ln][rw] is None])
min_number_of_candidates(g, c) ==
    LET lens == {9} \cup {Cardinality(c[a[1]][a[2]]) : a \in {a \in Cells : g[a[1]][a[2]] = None}}
    IN CHOOSE m \in lens : \A n \in lens : m <= n

\* the position 9 * line + row at which the for loop breaks, NoCell when it
\* runs to its else clause
SelectCell(g, c) ==
    LET m == min_number_of_candidates(g, c)
        matches == {p \in 0 .. 80 :
                      /\ g[p \div 9][(p % 9)] = None
                      /\ Cardinality(c[p \div 9][(p % 9)]) = m}
    IN IF matches = {} THEN NoCell
       ELSE CHOOSE p \in matches : \A q \in matches : p <= q

\* the order in which "for guess in candidates[line][row]" yields a set of
\* digits: ascending
RECURSIVE Ascending(_)
Ascending(s) ==
    IF s = {} THEN <<>>
    ELSE LET d == CHOOSE x \in s : \A y \in s : x <= y
         IN <<d>> \o Ascending(s \ {d})

\* Sudoku(grid.__str__())
Copy(g) == Sudoku_init(Sudoku_str(g)).grid

InitSolve ==
    /\ pc = "running"
    /\ InitGrid
    /\ IdleMap
    /\ stack = <<NewFrame(grid)>>
    /\ result = <<>>
    /\ completions = Completions(grid)

\* "if not grid.valid(): return solutions"
RejectInvalid ==
    /\ pc = "running"
    /\ Top.pc = "enter"
    /\ ~valid(grid)
    /\ stack' = SetTop([Top EXCEPT !.pc = "return"])
    /\ UNCHANGED <<pc, parseVars, grid, ret, mapVars, result, input, completions>>

\* "candidates = grid.candidate_map()"
Propagate ==
    /\ pc = "running"
    /\ Top.pc = "enter"
    /\ valid(grid)
    /\ stack' = SetTop([Top EXCEPT !.pc = "select", !.candidates = candidate_map(grid)])
    /\ UNCHANGED <<pc, parseVars, grid, ret, mapVars, result, input, completions>>

\* a variant that guesses every digit, not only the candidates of the cell
Branch_AllDigits ==
    /\ pc = "running"
    /\ Top.pc = "select"
    /\ SelectCell(grid, Top.candidates) # NoCell
    /\ stack' = SetTop([Top EXCEPT !.pc = "loop",
                            !.position = SelectCell(grid, Top.candidates),
                            !.guesses = Ascending(range1_10)])
    /\ UNCHANGED <<pc, parseVars, grid, ret, mapVars, result, input, completions>>

\* the for loop finds a cell and breaks out to iterate over its candidates
Branch ==
    /\ pc = "running"
    /\ Top.pc = "select"
    /\ SelectCell(grid, Top.candidates) # NoCell
    /\ LET p == SelectCell(grid, Top.candidates)
       IN stack' = SetTop([Top EXCEPT !.pc = "loop", !.position = p,
                               !.guesses = Ascending(Top.candidates[p \div 9][(p % 9)])])
    /\ UNCHANGED <<pc, parseVars, grid, ret, mapVars, result, input, completions>>

\* the for loop finds no cell: its else clause appends a copy of the grid
RecordSolution ==
    /\ pc = "running"
    /\ Top.pc = "select"
    /\ SelectCell(grid, Top.candidates) = NoCell
    /\ stack' = SetTop([Top EXCEPT !.pc = "return",
                            !.solutions = Append(Top.solutions, Copy(grid))])
    /\ UNCHANGED <<pc, parseVars, grid, ret, mapVars, result, input, completions>>

\* "grid.grid[line][row] = guess" and the recursive call
Guess ==
    /\ pc = "running"
    /\ Top.pc = "loop"
    /\ Top.guesses # <<>>
    /\ LET guess == Head(Top.guesses)
           line == Top.position \div 9
           row == (Top.position % 9)
       IN /\ grid' = [grid EXCEPT ![line][row] = guess]
          /\ stack' = Append(SetTop([Top EXCEPT !.guesses = Tail(Top.guesses),
                                                !.tried = Append(Top.tried, guess)]),
                             NewFrame(grid'))
    /\ UNCHANGED <<pc, parseVars, ret, mapVars, result, input, completions>>

\* a variant that leaves the last guess in the cell
Undo_NoRestore ==
    /\ pc = "running"
    /\ Top.pc = "loop"
    /\ Top.guesses = <<>>
    /\ stack' = SetTop([Top EXCEPT !.pc = "return"])
    /\ UNCHANGED <<pc, parseVars, grid, ret, mapVars, result, input, completions>>

\* "grid.grid[line][row] = None" after the last guess, then break
Undo ==
    /\ pc = "running"
    /\ Top.pc = "loop"
    /\ Top.guesses = <<>>
    /\ grid' = [grid EXCEPT ![Top.position \div 9][(Top.position % 9)] = None]
    /\ stack' = SetTop([Top EXCEPT !.pc = "return"])
    /\ UNCHANGED <<pc, parseVars, ret, mapVars, result, input, completions>>

\* a variant with "solutions = solve_puzzle(grid)" in place of "+="
Return_Overwrite ==
    /\ pc = "running"
    /\ Top.pc = "return"
    /\ Len(stack) > 1
    /\ stack' = [SubSeq(stack, 1, Len(stack) - 1) EXCEPT ![Len(stack) - 1].solutions =
                     Top.solutions]
    /\ UNCHANGED <<pc, parseVars, grid, ret, mapVars, result, input, completions>>

\* a recursive call returns: the caller appends its solutions to its own
Return ==
    /\ pc = "running"
    /\ Top.pc = "return"
    /\ Len(stack) > 1
    /\ LET caller == stack[Len(stack) - 1]
       IN stack' = [SubSeq(stack, 1, Len(stack) - 1) EXCEPT ![Len(stack) - 1] =
                       [caller EXCEPT !.solutions = caller.solutions \o Top.solutions]]
    /\ UNCHANGED <<pc, parseVars, grid, ret, mapVars, result, input, completions>>

\* the outermost call returns to "solutions = solve_puzzle(grid)"
Finish ==
    /\ pc = "running"
    /\ Top.pc = "return"
    /\ Len(stack) = 1
    /\ result' = Top.solutions
    /\ pc' = "done"
    /\ UNCHANGED <<parseVars, grid, ret, mapVars, stack, input, completions>>

Init == InitSolve

Next ==
    \/ RejectInvalid
    \/ Propagate
    \/ Branch
    \/ RecordSolution
    \/ Guess
    \/ Undo
    \/ Return
    \/ Finish

Spec == Init /\ [][Next]_vars

(***************************************************************************)
(* Properties.                                                             *)
(***************************************************************************)
Frames == {stack[i] : i \in 1 .. Len(stack)}

Range(s) == {s[i] : i \in 1 .. Len(s)}

NoDuplicates(s) == \A i \in 1 .. Len(s), j \in 1 .. Len(s) : i # j => s[i] # s[j]

CellOf(position) == <<position \div 9, (position % 9)>>

\* C1: when the outermost solve_puzzle has returned, the returned list is
\* exactly the set of valid completions of the input grid: every element is
\* fully assigned, has no repeated digit in a line, row or box and agrees
\* with the input on its given cells; every valid completion is in the list;
\* no grid is in the list twice.
C1_SolveComplete ==
    pc = "done" =>
        /\ \A i \in 1 .. Len(result) :
               /\ FullyAssigned(result[i])
               /\ ~HasRepeat(result[i])
               /\ Agrees(result[i], input)
        /\ Range(result) = completions
        /\ NoDuplicates(result)

C1_Witness == pc = "done" /\ Len(result) = 4 /\ Cardinality(completions) = 4

\* C2: whenever a call of solve_puzzle is about to return, top-level or
\* recursive, the grid holds the values it held when that call was entered.
C2_MutationIsolation ==
    /\ \A f \in Frames : f.pc = "return" => grid = f.entry
    /\ pc = "done" => grid = input

C2_Witness ==
    /\ pc = "running"
    /\ Len(stack) >= 2
    /\ Top.pc = "return"
    /\ Len(Top.tried) >= 2
    /\ Top.solutions # <<>>

\* C3: the constructor fails with GridStringError, producing no grid, for
\* every string whose length is not 81 and every string of length 81 that
\* holds a character other than "." and "1" .. "9".
ShouldReject(s) ==
    Len(s) # 81 \/ \E k \in 1 .. Len(s) : s[k] \notin GridAlphabet

C3_ParseRejection ==
    (pc # "start" /\ ShouldReject(grid_string)) =>
        (instance.err = "GridStringError" /\ pc = "raised")

\* C4: for every string the constructor accepts, __str__ of the instance is
\* that string, position k holding the character of cell (k // 9, k % 9).
C4_RoundTrip ==
    pc = "serialized" =>
        /\ output_string = grid_string
        /\ \A k \in 0 .. 80 :
               output_string[k + 1] =
                   IF grid[k \div 9][(k % 9)] = None THEN "."
                   ELSE str(grid[k \div 9][(k % 9)])

\* C5: valid() returns False exactly when some digit occurs in two resolved
\* cells of one line, row or box, and leaves every cell of the grid as it was.
C5_ValidityCorrect ==
    pc = "returned" => (ret = ~HasRepeat(grid) /\ grid = input)

\* a grid whose only repeats are inside a box, in different lines and rows
C5_Witness ==
    /\ pc = "returned"
    /\ ret = FALSE
    /\ \A a \in Cells, b \in Cells :
           (Peers(a, b) /\ At(grid, a) # None /\ At(grid, a) = At(grid, b))
               => (a[1] # b[1] /\ a[2] # b[2])

\* C6: on a valid grid, at every point of candidate_map after the first
\* loop, the candidate set of each cell holds the digit that cell has in each
\* valid completion of the grid.  (A grid with a repeated digit has no valid
\* completion, so the quantifier ranges over the valid grids' completions.)
C6_Soundness ==
    pc \in {"while", "pass", "returned"} =>
        \A s \in completions : \A a \in Cells : At(s, a) \in At(candidates, a)

\* several completions, and the passes removed candidates the first loop left
C6_Witness ==
    /\ pc = "returned"
    /\ Cardinality(completions) >= 2
    /\ passes >= 2
    /\ \E a \in Cells : Cardinality(At(candidates, a)) >= 2
    /\ candidates # PhaseA(grid).c

\* C7 as stated: in the returned map of a valid grid, the digit of every
\* cell whose candidate set is a singleton is in no candidate set of a cell
\* sharing its line, row or box.
C7_SingletonsPropagated ==
    (pc = "returned" /\ ~HasRepeat(input)) =>
        \A a \in Cells : Cardinality(At(candidates, a)) = 1 =>
            \A b \in At(PeersOf, a) : At(candidates, a) \cap At(candidates, b) = {}

\* C7 amended: the same for every cell that candidate_map has resolved, a
\* given cell or one collapsed by the hidden-single rule
\* (vertex_value_unknown is False).
C7_ResolvedPropagated ==
    (pc = "returned" /\ ~HasRepeat(input)) =>
        \A a \in Cells :
            (Cardinality(At(candidates, a)) = 1 /\ ~At(vertex_value_unknown, a)) =>
                \A b \in At(PeersOf, a) : At(candidates, a) \cap At(candidates, b) = {}

\* a hidden single was collapsed, and some other cell is a singleton by
\* elimination only
C7_Witness ==
    /\ pc = "returned"
    /\ ~HasRepeat(input)
    /\ \E a \in Cells : At(grid, a) = None /\ ~At(vertex_value_unknown, a)
                        /\ Cardinality(At(candidates, a)) = 1
    /\ \E a \in Cells : At(vertex_value_unknown, a) /\ Cardinality(At(candidates, a)) = 1

\* C8: the while loop of candidate_map terminates, for valid and invalid
\* grids: no block of a pass adds a digit to a candidate set; the total is
\* strictly smaller at the end of every pass but the last; the loop returns
\* at the end of the first pass that leaves the total unchanged, when one
\* more pass would change no candidate set; and the loop does return.
C8_Termination ==
    /\ [][pc = "pass" =>
            \A a \in Cells : At(candidates', a) \subseteq At(candidates, a)]_vars
    /\ [][(pc = "pass" /\ pc' = "while") =>
            total_number(candidates) < total_number_of_candidates]_vars
    /\ [][(pc = "pass" /\ block = StepsPerPass
              /\ total_number(candidates) = total_number_of_candidates) =>
            pc' = "returned"]_vars
    /\ [](pc = "returned" =>
            /\ total_number(candidates) = total_number_of_candidates
            /\ PassLoop([c |-> candidates, u |-> vertex_value_unknown]).c = candidates)
    /\ <>(pc = "returned")

C8_Witness == pc = "returned" /\ passes >= 3 /\ HasRepeat(input)

\* C9 (stated of the running call, the last frame of the stack; the frames
\* under it do not change while it runs): every call that got past the validity check with an unresolved cell
\* left branches on one cell: the first cell in line-major order among the
\* unresolved cells whose candidate set, in the map computed for the call's
\* grid, has the least size over all unresolved cells.  It assigns that cell
\* only digits of its candidate set, each at most once and by the time it
\* returns each exactly once, and each recursive call is entered on the
\* call's grid with that one cell assigned.
LeastSize(g, c) ==
    CHOOSE m \in {Cardinality(At(c, a)) : a \in Unresolved(g)} :
        \A a \in Unresolved(g) : m <= Cardinality(At(c, a))

BranchesOnFirstLeast(f) ==
    LET least == LeastSize(f.entry, f.candidates)
        cell == CellOf(f.position)
    IN /\ f.position # NoCell
       /\ cell \in Unresolved(f.entry)
       /\ Cardinality(At(f.candidates, cell)) = least
       /\ \A a \in Unresolved(f.entry) :
              Cardinality(At(f.candidates, a)) = least => 9 * a[1] + a[2] >= f.position
       /\ Range(f.tried) \subseteq At(f.candidates, cell)
       /\ NoDuplicates(f.tried)
       /\ f.pc = "return" => Range(f.tried) = At(f.candidates, cell)

Caller == stack[Len(stack) - 1]

C9_BranchingCell ==
    /\ (Top.pc \in {"loop", "return"} /\ ~HasRepeat(Top.entry)
            /\ Unresolved(Top.entry) # {})
           => BranchesOnFirstLeast(Top)
    /\ (Len(stack) >= 2 /\ Top.pc = "enter") =>
           /\ Caller.pc = "loop"
           /\ Caller.tried # <<>>
           /\ Top.entry =
                  [Caller.entry EXCEPT ![Caller.position \div 9][(Caller.position % 9)] =
                                           Caller.tried[Len(Caller.tried)]]
           /\ grid = Top.entry

\* the selected cell is not the first unresolved cell, and is not the only
\* one of least size
C9_Witness ==
    \E f \in Frames :
        /\ f.pc = "loop"
        /\ f.tried # <<>>
        /\ \E a \in Unresolved(f.entry) :
               /\ 9 * a[1] + a[2] < f.position
               /\ Cardinality(At(f.candidates, a)) >
                      Cardinality(At(f.candidates, CellOf(f.position)))
        /\ \E a \in Unresolved(f.entry) :
               /\ 9 * a[1] + a[2] > f.position
               /\ Cardinality(At(f.candidates, a)) =
                      Cardinality(At(f.candidates, CellOf(f.position)))

\* C10 (stated of the running call): when solve_puzzle is started on a
\* valid grid, every recursive call is entered on a valid grid with exactly one more resolved cell than its
\* caller's; a call that returns without having recursed either found the
\* grid fully assigned and valid and returns that one solution, or selected
\* a cell with no candidate and returns none; and the number of nested
\* recursive calls never exceeds the number of unresolved cells of the input.
C10_TerminalStates ==
    ~HasRepeat(input) =>
        /\ (Len(stack) >= 2 /\ Top.pc = "enter") =>
               /\ ~HasRepeat(grid)
               /\ valid(grid)
               /\ grid = Top.entry
               /\ Cardinality(Unresolved(Top.entry))
                      = Cardinality(Unresolved(Caller.entry)) - 1
        /\ (Top.pc = "return" /\ Top.tried = <<>>) =>
               \/ /\ FullyAssigned(Top.entry)
                  /\ ~HasRepeat(Top.entry)
                  /\ Top.solutions = <<Top.entry>>
               \/ /\ Top.position # NoCell
                  /\ At(Top.candidates, CellOf(Top.position)) = {}
                  /\ Top.solutions = <<>>
        /\ Len(stack) - 1 <= Cardinality(Unresolved(input))

\* a recursive call that selected a cell with no candidate
C10_Witness ==
    /\ ~HasRepeat(input)
    /\ Len(stack) >= 2
    /\ Top.pc = "return"
    /\ Top.tried = <<>>
    /\ Top.position # NoCell
    /\ Top.solutions = <<>>
====
